---- MODULE Spec2Model ----
(***************************************************************************)
(* A model of the DVID concurrency governor (server/server_local.go), the  *)
(* cgo activity tracker (dvid/distributed.go, package dvid) and the voxel  *)
(* keyspace encoder (dvid/distributed.go, package voxels).                 *)
(***************************************************************************)
EXTENDS Integers, Naturals, Sequences, FiniteSets, TLC

(***************************************************************************)
(* Bounds of the model.                                                    *)
(***************************************************************************)

\* runtime.NumCPU() of the modelled machine.
NumCPU == 1

\* Number of StartCgo calls made in a run, over all cgo goroutines.
MaxRegions == 2

(***************************************************************************)
(* Program constants.                                                      *)
(***************************************************************************)

MaxThrottledOps == 1

MaxNumberConcurrentCgo == 10000

cgoStarted == 1

cgoStopped == -1

\* The literal 20 of server.Shutdown and the literal 5 of BlockOnActiveCgo.
DrainWaitLimit == 20

CgoWaitLimit == 5

MaxChunkHandlers == NumCPU

\* Goroutines that ask for a handler token: one more than there are tokens.
Workers == 1 .. (MaxChunkHandlers + 1)

\* Operations that ask for the throttle token.
ThrottledOps == 1 .. (MaxThrottledOps + 2)

\* The chunk handlers still at work while the server shuts down.
ChunkHandlers == {1}

CgoRoutines == 1 .. 2

(***************************************************************************)
(* Package voxels: type-tagged composite indices.  A []byte is a sequence  *)
(* of numbers in 0 .. 255; Go's 0-based half-open slice b[lo:hi] is the    *)
(* elements lo+1 .. hi of the sequence.                                    *)
(***************************************************************************)

KeyUnknown == 0

KeyVoxelBlock == 1

KeyForwardMap == 2

KeyInverseMap == 3

KeySpatialMap == 4

KeyLabelSpatialMap == 5

KeyLabelSizes == 6

KeyLabelSurface == 7

\* make([]byte, n)
MakeBytes(n) == [i \in 1 .. n |-> 0]

\* b[lo:hi]
Slice(b, lo, hi) == SubSeq(b, lo + 1, hi)

\* dst[i] = v
SetByte(dst, i, v) == [dst EXCEPT ![i + 1] = v]

\* copy(dst[lo:hi], src): copies min(hi - lo, len(src)) bytes
Copy(dst, lo, hi, src) ==
    [i \in 1 .. Len(dst) |->
        IF i > lo /\ i <= hi /\ i - lo <= Len(src) THEN src[i - lo] ELSE dst[i]]

\* A uint64 is kept at its full width as four 16-bit limbs, most significant first:
\* <<a, b, c, d>> is a * 2^48 + b * 2^32 + c * 2^16 + d.
Limb == 0 .. 65535

\* uint64(n) for a small n
U64(n) == <<0, 0, n \div 65536, n % 65536>>

\* x < y on uint64: the limbs are base-65536 digits
U64Less(x, y) ==
    \E i \in 1 .. 4 : x[i] < y[i] /\ \A j \in 1 .. (i - 1) : x[j] = y[j]

\* The 8 bytes of v, most significant byte first.
BigEndianBytes(v) ==
    [i \in 1 .. 8 |-> IF i % 2 = 1 THEN v[(i + 1) \div 2] \div 256 ELSE v[i \div 2] % 256]

LittleEndianPutUint64(dst, lo, v) ==
    [i \in 1 .. Len(dst) |->
        IF i > lo /\ i <= lo + 8 THEN BigEndianBytes(v)[9 - (i - lo)] ELSE dst[i]]

\* binary.BigEndian.PutUint64(dst[lo:lo+8], v): dst[lo] gets the most significant byte
PutUint64(dst, lo, v) ==
    [i \in 1 .. Len(dst) |->
        IF i > lo /\ i <= lo + 8 THEN BigEndianBytes(v)[i - lo] ELSE dst[i]]

\* binary.BigEndian.Uint64(b) of an 8-byte slice
Uint64(b) == [k \in 1 .. 4 |-> b[2 * k - 1] * 256 + b[2 * k]]

\* A nil []byte.  copy from an empty slice copies nothing, so the empty sequence
\* stands for nil.
Nil == <<>>

\* NewVoxelBlockIndexByCoord(blockCoord string)
NewVoxelBlockIndexByCoord(blockCoord) ==
    LET sz == Len(blockCoord)
        index == SetByte(MakeBytes(1 + sz), 0, KeyVoxelBlock)
    IN Copy(index, 1, 1 + sz, blockCoord)

\* NewVoxelBlockIndex(blockIndex dvid.Index); blockIndex is given by its Bytes().
NewVoxelBlockIndex(blockIndex) == NewVoxelBlockIndexByCoord(blockIndex)

\* NewForwardMapIndex(label []byte, mapping uint64): a+b
NewForwardMapIndex(label, mapping) ==
    LET index == SetByte(MakeBytes(17), 0, KeyForwardMap)
    IN PutUint64(Copy(index, 1, 9, label), 9, mapping)

NewInverseMapIndexForwardLayout(label, mapping) ==
    LET index == SetByte(MakeBytes(17), 0, KeyInverseMap)
    IN PutUint64(Copy(index, 1, 9, label), 9, mapping)

\* NewInverseMapIndex(label []byte, mapping uint64): b+a
NewInverseMapIndex(label, mapping) ==
    LET index == SetByte(MakeBytes(17), 0, KeyInverseMap)
    IN Copy(PutUint64(index, 1, mapping), 9, 17, label)

\* NewSpatialMapIndex(blockIndex dvid.Index, label []byte, mappedLabel uint64): s+a+b
NewSpatialMapIndex(blockIndex, label, mappedLabel) ==
    LET indexBytes == blockIndex
        sz == Len(indexBytes)
        index0 == SetByte(MakeBytes(1 + sz + 8 + 8), 0, KeySpatialMap)
        i == 1 + sz
        index1 == Copy(index0, 1, i, indexBytes)
        index2 == IF label # Nil THEN Copy(index1, i, i + 8, label) ELSE index1
    IN PutUint64(index2, i + 8, mappedLabel)

UpdateSpatialMapIndexMappingOnly(index, label, mappedLabel) ==
    LET spatialSize == Len(index) - 17
        i == 1 + spatialSize
    IN PutUint64(index, i + 8, mappedLabel)

\* SpatialMapIndex.UpdateSpatialMapIndex(label []byte, mappedLabel uint64), in place
UpdateSpatialMapIndex(index, label, mappedLabel) ==
    LET spatialSize == Len(index) - 17
        i == 1 + spatialSize
        index1 == IF label # Nil THEN Copy(index, i, i + 8, label) ELSE index
    IN PutUint64(index1, i + 8, mappedLabel)

\* NewLabelSpatialMapIndex(label uint64, blockBytes []byte): b+s
NewLabelSpatialMapIndex(label, blockBytes) ==
    LET sz == Len(blockBytes)
        index == SetByte(MakeBytes(1 + 8 + sz), 0, KeyLabelSpatialMap)
    IN Copy(PutUint64(index, 1, label), 9, 9 + sz, blockBytes)

NewLabelSizesIndexAsForwardMap(size, label) ==
    LET index == SetByte(MakeBytes(17), 0, KeyForwardMap)
    IN PutUint64(PutUint64(index, 1, size), 9, label)

\* NewLabelSizesIndex(size, label uint64): v+b
NewLabelSizesIndex(size, label) ==
    LET index == SetByte(MakeBytes(17), 0, KeyLabelSizes)
    IN PutUint64(PutUint64(index, 1, size), 9, label)

\* NewLabelSurfaceIndex(label uint64): b
NewLabelSurfaceIndex(label) ==
    LET index == SetByte(MakeBytes(1 + 8), 0, KeyLabelSurface)
    IN PutUint64(index, 1, label)

(***************************************************************************)
(* Decoders.  A key is an index wrapped by its storage.DataContext; a      *)
(* decoder returns the named results of the Go function, all at their zero *)
(* value unless assigned.  An out-of-range slice expression panics.        *)
(***************************************************************************)

\* dvid.IndexZYXSize: three int32 block coordinates
IndexZYXSize == 12

\* The bytes a DataContext puts before and after an index: its key-space byte and
\* instance id, and its version id.
ContextPrefix == <<1, 0, 0, 0, 1>>

ContextSuffix == <<0, 0, 0, 1>>

KeyOf(index) == ContextPrefix \o index \o ContextSuffix

\* storage.DataContext.IndexFromKey(key)
IndexFromKey(key) ==
    IF Len(key) < Len(ContextPrefix) + Len(ContextSuffix)
         \/ SubSeq(key, 1, Len(ContextPrefix)) # ContextPrefix
      THEN [err |-> "IndexFromKey", index |-> Nil]
      ELSE [err |-> "", index |-> Slice(key, Len(ContextPrefix), Len(key) - Len(ContextSuffix))]

Result(d, e, l, n, b) == [decoder |-> d, err |-> e, label |-> l, num |-> n, block |-> b]

Failed(d, e) == Result(d, e, Nil, U64(0), Nil)

\* dvid.IndexZYX.IndexFromBytes(b)
IndexZYXFromBytes(b) ==
    IF Len(b) # IndexZYXSize THEN [err |-> "IndexFromBytes", zyx |-> Nil]
    ELSE [err |-> "", zyx |-> b]

\* DecodeVoxelBlockKey(key []byte) (*dvid.IndexZYX, error)
DecodeVoxelBlockKey(key) ==
    LET d == "DecodeVoxelBlockKey"
        r == IndexFromKey(key)
        index == r.index
    IN IF r.err # "" THEN Failed(d, r.err)
       ELSE IF Len(index) < 1 THEN Failed(d, "panic")
       ELSE IF index[1] # KeyVoxelBlock THEN Failed(d, "KeyTypeMismatch")
       ELSE LET z == IndexZYXFromBytes(Slice(index, 1, Len(index)))
            IN IF z.err # "" THEN Failed(d, "CannotRecoverZYX")
               ELSE Result(d, "", Nil, U64(0), z.zyx)

\* DecodeSpatialMapKey(key []byte) (label []byte, mappedLabel uint64, err error)
DecodeSpatialMapKey(key) ==
    LET d == "DecodeSpatialMapKey"
        r == IndexFromKey(key)
        index == r.index
        labelOffset == 1 + IndexZYXSize
    IN IF r.err # "" THEN Failed(d, r.err)
       ELSE IF Len(index) < 1 THEN Failed(d, "panic")
       ELSE IF index[1] # KeySpatialMap THEN Failed(d, "KeyTypeMismatch")
       ELSE IF Len(index) < labelOffset + 16 THEN Failed(d, "panic")
       ELSE Result(d, "", Slice(index, labelOffset, labelOffset + 8),
                   Uint64(Slice(index, labelOffset + 8, labelOffset + 16)), Nil)

\* DecodeLabelSpatialMapKey(key []byte) (label uint64, blockBytes []byte, err error)
DecodeLabelSpatialMapKey(key) ==
    LET d == "DecodeLabelSpatialMapKey"
        r == IndexFromKey(key)
        index == r.index
    IN IF r.err # "" THEN Failed(d, r.err)
       ELSE IF Len(index) < 1 THEN Failed(d, "panic")
       ELSE IF index[1] # KeyLabelSpatialMap THEN Failed(d, "KeyTypeMismatch")
       ELSE IF Len(index) < 9 THEN Failed(d, "panic")
       ELSE Result(d, "", Nil, Uint64(Slice(index, 1, 9)), Slice(index, 9, Len(index)))

\* LabelFromLabelSizesKey(key []byte) (uint64, error)
LabelFromLabelSizesKey(key) ==
    LET d == "LabelFromLabelSizesKey"
        r == IndexFromKey(key)
        indexBytes == r.index
    IN IF r.err # "" THEN Failed(d, r.err)
       ELSE IF Len(indexBytes) < 17 THEN Failed(d, "panic")
       ELSE Result(d, "", Nil, Uint64(Slice(indexBytes, 9, 17)), Nil)

\* The KeyType each decoder is for.
ExpectedKeyType(d) ==
    CASE d = "DecodeVoxelBlockKey" -> KeyVoxelBlock
      [] d = "DecodeSpatialMapKey" -> KeySpatialMap
      [] d = "DecodeLabelSpatialMapKey" -> KeyLabelSpatialMap
      [] d = "LabelFromLabelSizesKey" -> KeyLabelSizes

(***************************************************************************)
(* Inputs of the index builders.                                           *)
(***************************************************************************)

Byte8(a, b) == <<a, 0, 0, 0, 0, 0, 0, b>>

\* 8-byte labels as []byte
Labels == {Byte8(0, 0), Byte8(0, 1), Byte8(1, 0), Byte8(255, 255)}

U64Vals == {U64(0), U64(1), U64(2), U64(256), <<0, 1, 0, 0>>, <<65535, 65535, 65535, 65535>>}

ZYX(z, y, x) == <<0, 0, 0, z, 0, 0, 0, y, 0, 0, 0, x>>

\* Block coordinates: two ZYX indices and one of another, shorter scheme
Coords == {ZYX(0, 0, 0), ZYX(1, 2, 3), <<9>>}

\* An index as built, with the inputs it was built from; old and oldLabel are the
\* bytes and the label before an UpdateSpatialMapIndex.
Built(k, b, c, l, m, sz) ==
    [kind |-> k, bytes |-> b, coord |-> c, label |-> l, mapping |-> m, size |-> sz,
     updated |-> FALSE, old |-> Nil, oldLabel |-> Nil]

NoIndex == Built(KeyUnknown, Nil, Nil, Nil, U64(0), U64(0))

NoResult == Failed("none", "")

\* byte-lexicographic order of the key-value store: a sorts strictly before b
LexLess(a, b) ==
    \E i \in 1 .. Len(b) :
        /\ \A j \in 1 .. (i - 1) : j <= Len(a) /\ a[j] = b[j]
        /\ (i > Len(a) \/ a[i] < b[i])

VARIABLES
    HandlerToken,   \* len(HandlerToken): every element of the channel is the int 1
    Throttle,       \* len(Throttle)
    hpc,            \* per worker: "idle", "waiting" (blocked in <-HandlerToken), "holding"
    tpc,            \* per throttled op: "idle", "waiting", "holding"
    cgoActive,      \* the buffered channel of cgoStatus markers, head first
    cgoNumActive,   \* the accounting goroutine's counter
    cgoSeen,        \* values an unsynchronised read of cgoNumActive may observe
    startCgo,       \* the startCgo mutex: "free", or held by "cgo" (a StartCgo) or "shutdown"
    acctMsg,        \* marker received by the accounting goroutine and not yet applied (0: none)
    cpc,            \* per cgo goroutine: "out", "startLock" (line 71), "startSend" (72),
                    \* "startUnlock" (73), "in" (inside the bracketed cgo code)
    regions,        \* number of StartCgo calls made so far
    spc,            \* position of server.Shutdown
    waits,          \* local waits of server.Shutdown (0 again once the loop is left,
                    \* where it is no longer read)
    sleeps,         \* time.Sleep calls of the token-drain loop in progress
    drained,        \* how the token-drain loop ended: "" (not yet), "idle" ("No chunk
                    \* handlers active..." logged) or "timeout" ("Already waited ...")
    cgoWaits,       \* local waits of dvid.BlockOnActiveCgo
    cgoSleeps,      \* number of time.Sleep calls of BlockOnActiveCgo
    stages,         \* shutdown stages entered so far, in order
    idx,            \* the index under test: as built, then possibly updated in place
    other,          \* a second index, built after idx, to compare it with
    dec,            \* what the decoder last applied to the key of idx returned
    ticks,          \* local ticks of the load monitor goroutine
    ActiveHandlers, \* server.ActiveHandlers
    curActiveHandlers, \* server.curActiveHandlers
    samples,        \* values of numHandlers sampled since the tally last restarted
    winTicks,       \* number of ticks that sampled since the tally last restarted
    ended,          \* windows ended so far (2 stands for two or more)
    Engines,        \* server.Engines
    setupErr,       \* what the last call of SetupEngines returned ("" for nil)
    probed,         \* what the last call of SetupEngines created and probed, in order
    id,             \* the identifier last encoded: its type and its value
    enc,            \* the bytes its Bytes method returned
    decoded         \* what the ...FromBytes function returned for enc and trailing bytes

poolVars == <<HandlerToken, Throttle, hpc, tpc>>

cgoVars == <<cgoActive, cgoNumActive, cgoSeen, startCgo, acctMsg, cpc, regions>>

shutVars == <<spc, waits, sleeps, drained, cgoWaits, cgoSleeps, stages>>

keyVars == <<idx, other, dec>>

loadVars == <<ticks, ActiveHandlers, curActiveHandlers, samples, winTicks, ended>>

engineVars == <<Engines, setupErr, probed>>

idVars == <<id, enc, decoded>>

vars == <<poolVars, cgoVars, shutVars, keyVars, loadVars, engineVars, idVars>>

(***************************************************************************)
(* server.init: the token channels are filled to capacity.                 *)
(***************************************************************************)

InitThrottle == MaxThrottledOps

InitHandlerTokenShort == MaxChunkHandlers - 1

InitHandlerToken == MaxChunkHandlers

InitPools ==
    /\ HandlerToken = InitHandlerToken
    /\ Throttle = InitThrottle
    /\ hpc = [w \in Workers |-> "idle"]
    /\ tpc = [t \in ThrottledOps |-> "idle"]

\* dvid.init: an empty marker channel, the counter at its zero value.
InitCgo ==
    /\ cgoActive = <<>>
    /\ cgoNumActive = 0
    /\ cgoSeen = {0}
    /\ startCgo = "free"
    /\ acctMsg = 0
    /\ cpc = [g \in CgoRoutines |-> "out"]
    /\ regions = 0

InitShutdown ==
    /\ spc = "running"
    /\ waits = 0
    /\ sleeps = 0
    /\ drained = ""
    /\ cgoWaits = 0
    /\ cgoSleeps = 0
    /\ stages = <<>>

\* No index has been built.
InitKeys ==
    /\ idx = NoIndex
    /\ other = NoIndex
    /\ dec = NoResult

\* server.init: the load monitor starts with ticks := 0 and both tallies at their zero value.
InitLoad ==
    /\ ticks = 0
    /\ ActiveHandlers = 0
    /\ curActiveHandlers = 0
    /\ samples = {}
    /\ winTicks = 0
    /\ ended = 0

\* An interface value: nil, or an engine and the set of capabilities its type implements.
NoEngine == [open |-> FALSE, caps |-> {}]

\* The zero value of server.Engines.
InitEngines ==
    /\ Engines = [kvEngine |-> NoEngine, kvDB |-> NoEngine, kvSetter |-> NoEngine,
                  kvGetter |-> NoEngine, graphEngine |-> NoEngine, graphDB |-> NoEngine,
                  graphSetter |-> NoEngine, graphGetter |-> NoEngine, setup |-> FALSE]
    /\ setupErr = ""
    /\ probed = <<>>

NoID == [type |-> "", value |-> <<>>]

\* No identifier has been encoded.
InitIds ==
    /\ id = NoID
    /\ enc = <<>>
    /\ decoded = [input |-> <<>>, ret |-> <<>>]

Init == InitPools /\ InitCgo /\ InitShutdown /\ InitKeys /\ InitLoad /\ InitEngines /\ InitIds

(***************************************************************************)
(* Token pools.  A worker receives from the channel to acquire and sends   *)
(* one token back to release.                                              *)
(***************************************************************************)

Holders == {w \in Workers : hpc[w] = "holding"}

ThrottleHolders == {t \in ThrottledOps : tpc[t] = "holding"}

RequestHandler(w) ==
    /\ hpc[w] = "idle"
    /\ hpc' = [hpc EXCEPT ![w] = "waiting"]
    /\ UNCHANGED <<HandlerToken, Throttle, tpc>>

\* <-server.HandlerToken
AcquireHandler(w) ==
    /\ hpc[w] = "waiting"
    /\ HandlerToken > 0
    /\ HandlerToken' = HandlerToken - 1
    /\ hpc' = [hpc EXCEPT ![w] = "holding"]
    /\ UNCHANGED <<Throttle, tpc>>

\* server.HandlerToken <- 1
ReleaseHandler(w) ==
    /\ hpc[w] = "holding"
    /\ HandlerToken < MaxChunkHandlers
    /\ HandlerToken' = HandlerToken + 1
    /\ hpc' = [hpc EXCEPT ![w] = "idle"]
    /\ UNCHANGED <<Throttle, tpc>>

RequestThrottle(t) ==
    /\ tpc[t] = "idle"
    /\ tpc' = [tpc EXCEPT ![t] = "waiting"]
    /\ UNCHANGED <<HandlerToken, Throttle, hpc>>

\* <-server.Throttle
AcquireThrottle(t) ==
    /\ tpc[t] = "waiting"
    /\ Throttle > 0
    /\ Throttle' = Throttle - 1
    /\ tpc' = [tpc EXCEPT ![t] = "holding"]
    /\ UNCHANGED <<HandlerToken, hpc>>

\* server.Throttle <- 1
ReleaseThrottle(t) ==
    /\ tpc[t] = "holding"
    /\ Throttle < MaxThrottledOps
    /\ Throttle' = Throttle + 1
    /\ tpc' = [tpc EXCEPT ![t] = "idle"]
    /\ UNCHANGED <<HandlerToken, hpc>>

HandlerStepOf(W) ==
    \E w \in W : RequestHandler(w) \/ AcquireHandler(w) \/ ReleaseHandler(w)

HandlerStep == HandlerStepOf(Workers)

ThrottleStep ==
    \E t \in ThrottledOps : RequestThrottle(t) \/ AcquireThrottle(t) \/ ReleaseThrottle(t)

(***************************************************************************)
(* dvid: cgo markers, the accounting goroutine and BlockOnActiveCgo.       *)
(***************************************************************************)

\* A goroutine calls StartCgo and arrives at startCgo.Lock().
CallStartCgo(g) ==
    /\ cpc[g] = "out"
    /\ regions < MaxRegions
    /\ cpc' = [cpc EXCEPT ![g] = "startLock"]
    /\ regions' = regions + 1
    /\ UNCHANGED <<cgoActive, cgoNumActive, cgoSeen, startCgo, acctMsg>>

\* startCgo.Lock() in StartCgo
StartCgoLock(g) ==
    /\ cpc[g] = "startLock"
    /\ startCgo = "free"
    /\ startCgo' = "cgo"
    /\ cpc' = [cpc EXCEPT ![g] = "startSend"]
    /\ UNCHANGED <<cgoActive, cgoNumActive, cgoSeen, acctMsg, regions>>

\* cgoActive <- cgoStarted
StartCgoSend(g) ==
    /\ cpc[g] = "startSend"
    /\ Len(cgoActive) < MaxNumberConcurrentCgo
    /\ cgoActive' = Append(cgoActive, cgoStarted)
    /\ cpc' = [cpc EXCEPT ![g] = "startUnlock"]
    /\ UNCHANGED <<cgoNumActive, cgoSeen, startCgo, acctMsg, regions>>

\* startCgo.Unlock() in StartCgo; the call returns and the region is active.
StartCgoUnlock(g) ==
    /\ cpc[g] = "startUnlock"
    /\ startCgo' = "free"
    /\ cpc' = [cpc EXCEPT ![g] = "in"]
    /\ UNCHANGED <<cgoActive, cgoNumActive, cgoSeen, acctMsg, regions>>

StopCgoUnderMutex(g) ==
    /\ cpc[g] = "in"
    /\ startCgo = "free"
    /\ Len(cgoActive) < MaxNumberConcurrentCgo
    /\ cgoActive' = Append(cgoActive, cgoStopped)
    /\ cpc' = [cpc EXCEPT ![g] = "out"]
    /\ UNCHANGED <<cgoNumActive, cgoSeen, startCgo, acctMsg, regions>>

\* StopCgo: cgoActive <- cgoStopped
StopCgo(g) ==
    /\ cpc[g] = "in"
    /\ Len(cgoActive) < MaxNumberConcurrentCgo
    /\ cgoActive' = Append(cgoActive, cgoStopped)
    /\ cpc' = [cpc EXCEPT ![g] = "out"]
    /\ UNCHANGED <<cgoNumActive, cgoSeen, startCgo, acctMsg, regions>>

StartCgo(g) ==
    CallStartCgo(g) \/ StartCgoLock(g) \/ StartCgoSend(g) \/ StartCgoUnlock(g)

\* The accounting goroutine evaluates <-cgoActive ...
AcctReceive ==
    /\ acctMsg = 0
    /\ cgoActive # <<>>
    /\ acctMsg' = Head(cgoActive)
    /\ cgoActive' = Tail(cgoActive)
    /\ UNCHANGED <<cgoNumActive, cgoSeen, startCgo, cpc, regions>>

AcctApplyStartsOnly ==
    /\ acctMsg # 0
    /\ cgoNumActive' = IF acctMsg = cgoStarted THEN cgoNumActive + 1 ELSE cgoNumActive
    /\ cgoSeen' = cgoSeen \cup {cgoNumActive'}
    /\ acctMsg' = 0
    /\ UNCHANGED <<cgoActive, startCgo, cpc, regions>>

\* ... and then runs the case of the switch that matches the marker.
AcctApply ==
    /\ acctMsg # 0
    /\ cgoNumActive' = IF acctMsg = cgoStarted THEN cgoNumActive + 1
                       ELSE IF acctMsg = cgoStopped THEN cgoNumActive - 1
                       ELSE cgoNumActive
    /\ cgoSeen' = cgoSeen \cup {cgoNumActive'}
    /\ acctMsg' = 0
    /\ UNCHANGED <<cgoActive, startCgo, cpc, regions>>

CgoStep ==
    \/ \E g \in CgoRoutines : StartCgo(g)
    \/ \E g \in CgoRoutines : StopCgo(g)
    \/ AcctReceive
    \/ AcctApply

(***************************************************************************)
(* server.Shutdown, with dvid.BlockOnActiveCgo inlined at its call.        *)
(***************************************************************************)

Stage(s) == stages' = Append(stages, s)

\* if runningService.Service != nil { runningService.Service.Shutdown() }; waits := 0
\* The datastore service is external: its Shutdown returns and touches nothing modelled.
ShutdownCall ==
    /\ spc = "running"
    /\ \E serviceOpen \in BOOLEAN : TRUE
    /\ spc' = "drain"
    /\ waits' = 0
    /\ Stage("Draining")
    /\ UNCHANGED <<sleeps, drained, cgoWaits, cgoSleeps>>

\* break out of the token-drain loop after logging why
LeaveDrain(why) ==
    /\ spc' = "storage"
    /\ drained' = why
    /\ waits' = 0
    /\ sleeps' = 0

DrainCheckOffByOne ==
    /\ spc = "drain"
    /\ LET active == MaxChunkHandlers - HandlerToken
       IN IF waits > DrainWaitLimit
            THEN LeaveDrain("timeout")
          ELSE IF active > 0
            THEN /\ spc' = "drainSleep"
                 /\ waits' = waits + 1
                 /\ UNCHANGED <<sleeps, drained>>
          ELSE LeaveDrain("idle")
    /\ UNCHANGED <<cgoWaits, cgoSleeps, stages>>

\* One evaluation of the body of the token-drain loop up to the break or the sleep.
DrainCheck ==
    /\ spc = "drain"
    /\ LET active == MaxChunkHandlers - HandlerToken
       IN IF waits >= DrainWaitLimit
            THEN LeaveDrain("timeout")
          ELSE IF active > 0
            THEN /\ spc' = "drainSleep"
                 /\ waits' = waits + 1
                 /\ UNCHANGED <<sleeps, drained>>
          ELSE LeaveDrain("idle")
    /\ UNCHANGED <<cgoWaits, cgoSleeps, stages>>

\* time.Sleep(1 * time.Second) of the token-drain loop
DrainSleep ==
    /\ spc = "drainSleep"
    /\ spc' = "drain"
    /\ sleeps' = sleeps + 1
    /\ UNCHANGED <<waits, drained, cgoWaits, cgoSleeps, stages>>

\* storage.Shutdown()
StorageShutdown ==
    /\ spc = "storage"
    /\ spc' = "cgoLock"
    /\ Stage("StorageEngineShutdown")
    /\ UNCHANGED <<waits, sleeps, drained, cgoWaits, cgoSleeps>>

\* BlockOnActiveCgo: startCgo.Lock(); waits := 0
BlockLock ==
    /\ spc = "cgoLock"
    /\ startCgo = "free"
    /\ startCgo' = "shutdown"
    /\ spc' = "cgoCheck"
    /\ cgoWaits' = 0
    /\ Stage("NativeCallDrain")
    /\ UNCHANGED <<waits, sleeps, drained, cgoSleeps>>

\* The loop test of BlockOnActiveCgo.  cgoNumActive is read without synchronisation
\* with the accounting goroutine, so the read observes any value written so far.
\* On return the deferred startCgo.Unlock() runs and Shutdown ends.
BlockCheck ==
    /\ spc = "cgoCheck"
    /\ \E n \in cgoSeen :
         IF (n = 0 /\ Len(cgoActive) = 0) \/ cgoWaits >= CgoWaitLimit
           THEN /\ spc' = "done"
                /\ startCgo' = "free"
                /\ cgoWaits' = cgoWaits
                /\ Stage("Terminated")
           ELSE /\ spc' = "cgoSleep"
                /\ startCgo' = startCgo
                /\ cgoWaits' = cgoWaits + 1
                /\ stages' = stages
    /\ UNCHANGED <<waits, sleeps, drained, cgoSleeps>>

\* time.Sleep(1 * time.Second) of BlockOnActiveCgo
BlockSleep ==
    /\ spc = "cgoSleep"
    /\ spc' = "cgoCheck"
    /\ cgoSleeps' = cgoSleeps + 1
    /\ UNCHANGED <<waits, sleeps, drained, cgoWaits, stages, startCgo>>

ShutdownStep ==
    \/ (ShutdownCall \/ DrainCheck \/ DrainSleep \/ StorageShutdown)
         /\ UNCHANGED <<poolVars, cgoVars, keyVars, loadVars, engineVars, idVars>>
    \/ (BlockLock \/ BlockCheck \/ BlockSleep)
         /\ UNCHANGED <<poolVars, keyVars, cgoActive, cgoNumActive, cgoSeen, acctMsg,
                        cpc, regions, loadVars, engineVars, idVars>>

Next ==
    \/ HandlerStepOf(ChunkHandlers) /\ UNCHANGED <<cgoVars, shutVars, keyVars,
                    loadVars, engineVars, idVars>>
    \/ CgoStep /\ UNCHANGED <<poolVars, shutVars, keyVars, loadVars, engineVars, idVars>>
    \/ ShutdownStep

Spec == Init /\ [][Next]_vars

(***************************************************************************)
(* Fairness.  The Go scheduler runs every runnable goroutine, so Shutdown, *)
(* the accounting goroutine and a goroutine inside StartCgo's critical     *)
(* section keep taking the steps that are enabled; sync.Mutex hands the    *)
(* lock to a waiter that has been starved (starvation mode), so Lock is    *)
(* strongly fair.  Nothing makes a worker return its token, a goroutine    *)
(* call StartCgo or StopCgo, or anyone call Shutdown.                      *)
(***************************************************************************)

ShutdownProgress ==
    \/ (DrainCheck \/ DrainSleep \/ StorageShutdown) /\ UNCHANGED <<poolVars, cgoVars, keyVars,
                    loadVars, engineVars, idVars>>
    \/ (BlockCheck \/ BlockSleep)
         /\ UNCHANGED <<poolVars, keyVars, cgoActive, cgoNumActive, cgoSeen, acctMsg, cpc, regions,
                    loadVars, engineVars, idVars>>

ShutdownLock ==
    BlockLock /\ UNCHANGED <<poolVars, keyVars, cgoActive, cgoNumActive, cgoSeen, acctMsg, cpc, regions,
                    loadVars, engineVars, idVars>>

CriticalSectionProgress ==
    (\E g \in CgoRoutines : StartCgoSend(g) \/ StartCgoUnlock(g))
        /\ UNCHANGED <<poolVars, shutVars, keyVars, loadVars, engineVars, idVars>>

AcctProgress == (AcctReceive \/ AcctApply) /\ UNCHANGED <<poolVars, shutVars, keyVars,
                    loadVars, engineVars, idVars>>

FairSpec ==
    /\ Spec
    /\ WF_vars(ShutdownProgress)
    /\ SF_vars(ShutdownLock)
    /\ WF_vars(CriticalSectionProgress)
    /\ WF_vars(AcctProgress)

\* C3: once server.Shutdown has been called it reaches its end, whatever the workers
\* and the cgo goroutines do; the token-drain loop sleeps at most 20 times and
\* BlockOnActiveCgo at most 5 times.
C3_ShutdownTerminates ==
    /\ (spc # "running") ~> (spc = "done")
    /\ [](sleeps <= DrainWaitLimit /\ cgoSleeps <= CgoWaitLimit)

\* Shutdown has ended after the token-drain loop gave up and BlockOnActiveCgo slept 5
\* times, while a worker still holds its token and a cgo region is still open.
C3_Witness ==
    /\ spc = "done"
    /\ drained = "timeout"
    /\ cgoSleeps = CgoWaitLimit
    /\ \E w \in ChunkHandlers : hpc[w] = "holding"
    /\ \E g \in CgoRoutines : cpc[g] = "in"

(***************************************************************************)
(* Properties of the shutdown sequence and of the cgo tracker.             *)
(***************************************************************************)

IsPrefix(s, t) == Len(s) <= Len(t) /\ \A i \in 1 .. Len(s) : s[i] = t[i]

\* C2: the stages of server.Shutdown occur in the order Draining, NativeCallDrain,
\* StorageEngineShutdown, Terminated: the storage engine is not shut down before the
\* native-call drain has finished.
C2_StageOrder ==
    IsPrefix(stages, <<"Draining", "NativeCallDrain", "StorageEngineShutdown", "Terminated">>)

ActiveRegions == {g \in CgoRoutines : cpc[g] = "in"}

\* C4: BlockOnActiveCgo, called while one region has been started and is never
\* stopped, returns after exactly 5 poll attempts; and it returns only when
\* (cgoNumActive = 0 and the queue is empty) or waits has reached 5.
C4_DrainBound ==
    [][(spc = "cgoCheck" /\ spc' = "done") =>
          /\ (regions = 1 /\ Cardinality(ActiveRegions) = 1) => cgoWaits' = CgoWaitLimit
          /\ (cgoNumActive = 0 /\ Len(cgoActive) = 0) \/ cgoWaits' = CgoWaitLimit
      ]_vars

QueueHasRoom == Len(cgoActive) < MaxNumberConcurrentCgo

\* C5 as stated: while fewer than 10,000 markers are queued, a goroutine inside
\* StartCgo or calling StopCgo can always take its next step, a BlockOnActiveCgo drain
\* in progress included.  (Read in the claim's favour: the short mutual exclusion
\* between two StartCgo calls is not counted as waiting.)
C5_EmissionNeverBlocks ==
    QueueHasRoom =>
        \A g \in CgoRoutines :
            /\ cpc[g] = "startLock" /\ startCgo # "cgo" => ENABLED StartCgoLock(g)
            /\ cpc[g] = "startSend" => ENABLED StartCgoSend(g)
            /\ cpc[g] = "startUnlock" => ENABLED StartCgoUnlock(g)
            /\ cpc[g] = "in" => ENABLED StopCgo(g)

\* C5 amended: StopCgo never waits while the queue has room, a drain in progress
\* included.  StartCgo waits exactly while the startCgo mutex is taken, which it is for
\* the whole of a BlockOnActiveCgo drain and while another goroutine is inside StartCgo;
\* holding the mutex, it does not wait while the queue has room.
C5_EmissionBlocksOnlyOnMutex ==
    /\ \A g \in CgoRoutines :
         /\ cpc[g] = "in" /\ QueueHasRoom => ENABLED StopCgo(g)
         /\ cpc[g] = "startLock" => (ENABLED StartCgoLock(g) <=> startCgo = "free")
         /\ cpc[g] = "startSend" /\ QueueHasRoom => ENABLED StartCgoSend(g)
         /\ cpc[g] = "startUnlock" => ENABLED StartCgoUnlock(g)
    /\ spc \in {"cgoCheck", "cgoSleep"} => startCgo = "shutdown"
    /\ startCgo = "cgo" <=> \E g \in CgoRoutines : cpc[g] \in {"startSend", "startUnlock"}
    /\ startCgo = "free" => spc \notin {"cgoCheck", "cgoSleep"}

\* A drain is sleeping while one goroutine is blocked in StartCgo and another is
\* inside a region, about to call StopCgo.
C5_Witness ==
    /\ spc = "cgoSleep"
    /\ \E g \in CgoRoutines : cpc[g] = "startLock"
    /\ \E g \in CgoRoutines : cpc[g] = "in"

\* C13: whenever BlockOnActiveCgo returns having made fewer than 5 waits, no
\* goroutine is inside a region (StartCgo completed, StopCgo not yet called), for
\* every interleaving of the emitters, the accounting goroutine and the drain.
C13_DrainSound ==
    [][(spc = "cgoCheck" /\ spc' = "done" /\ cgoWaits' < CgoWaitLimit) => ActiveRegions = {}]_vars

\* Markers of one kind that are sent and not yet counted: still in the channel, or
\* received by the accounting goroutine and not yet applied.
Pending(m) ==
    Cardinality({i \in 1 .. Len(cgoActive) : cgoActive[i] = m}) + (IF acctMsg = m THEN 1 ELSE 0)

\* Goroutines that have sent their start marker and not yet their stop marker.
EmittedRegions == {g \in CgoRoutines : cpc[g] \in {"startUnlock", "in"}}

\* C14 as stated: cgoNumActive >= 0, and cgoNumActive plus the pending start markers
\* minus the pending stop markers is the number of regions that have completed
\* StartCgo and not yet called StopCgo; so with nothing pending cgoNumActive is the
\* number of active regions.
C14_CountMatchesCompletedRegions ==
    /\ cgoNumActive >= 0
    /\ cgoNumActive + Pending(cgoStarted) - Pending(cgoStopped) = Cardinality(ActiveRegions)
    /\ Pending(cgoStarted) + Pending(cgoStopped) = 0 => cgoNumActive = Cardinality(ActiveRegions)

\* C14 amended: the balance counts a region from the send of its start marker, which
\* comes before the return of StartCgo (the goroutine still has to unlock startCgo);
\* it is the number of completed regions whenever no goroutine holds the startCgo
\* mutex, and so during the whole of a BlockOnActiveCgo drain.
C14_CountMatchesEmittedRegions ==
    /\ cgoNumActive >= 0
    /\ cgoNumActive + Pending(cgoStarted) - Pending(cgoStopped) = Cardinality(EmittedRegions)
    /\ Pending(cgoStarted) + Pending(cgoStopped) = 0 => cgoNumActive = Cardinality(EmittedRegions)
    /\ startCgo # "cgo" => EmittedRegions = ActiveRegions

\* One region is counted, its stop marker is received and not yet applied, and the
\* start marker of a second region, which is active, is still queued.
C14_Witness ==
    /\ cgoNumActive = 1
    /\ acctMsg = cgoStopped
    /\ cgoActive = <<cgoStarted>>
    /\ Cardinality(ActiveRegions) = 1

NextPool ==
    \/ HandlerStep /\ UNCHANGED <<cgoVars, shutVars, keyVars,
                    loadVars, engineVars, idVars>>
    \/ ThrottleStep /\ UNCHANGED <<cgoVars, shutVars, keyVars,
                    loadVars, engineVars, idVars>>

SpecPool == Init /\ [][NextPool]_vars

\* C1: each token channel is a bounded semaphore.  At most N workers hold a token and
\* tokens are conserved; a waiting worker can acquire exactly when fewer than N tokens
\* are held (so the first N acquisitions do not wait, the (N+1)-th is blocked while
\* all N are held and can proceed once one is released); a release never blocks.
C1_Backpressure ==
    /\ Cardinality(Holders) <= MaxChunkHandlers
    /\ HandlerToken + Cardinality(Holders) = MaxChunkHandlers
    /\ \A w \in Workers :
         /\ hpc[w] = "waiting" =>
              (ENABLED AcquireHandler(w) <=> Cardinality(Holders) < MaxChunkHandlers)
         /\ hpc[w] = "holding" => ENABLED ReleaseHandler(w)
    /\ Cardinality(ThrottleHolders) <= MaxThrottledOps
    /\ Throttle + Cardinality(ThrottleHolders) = MaxThrottledOps
    /\ \A t \in ThrottledOps :
         /\ tpc[t] = "waiting" =>
              (ENABLED AcquireThrottle(t) <=> Cardinality(ThrottleHolders) < MaxThrottledOps)
         /\ tpc[t] = "holding" => ENABLED ReleaseThrottle(t)

\* All tokens of both pools are held and one more worker is blocked on each.
C1_Witness ==
    /\ Cardinality(Holders) = MaxChunkHandlers
    /\ \E w \in Workers : hpc[w] = "waiting"
    /\ Cardinality(ThrottleHolders) = MaxThrottledOps
    /\ \E t \in ThrottledOps : tpc[t] = "waiting"

(***************************************************************************)
(* The keyspace encoder as a state machine: an index is built from inputs  *)
(* drawn from the sets above; then either a second index is built, or the  *)
(* first is updated in place (if it is a SpatialMapIndex), or a decoder is *)
(* applied to its key.                                                     *)
(***************************************************************************)

\* Store a freshly built index: the first goes to idx, the second to other.
Store(ix) ==
    /\ other = NoIndex
    /\ dec = NoResult
    /\ ~idx.updated
    /\ IF idx = NoIndex
         THEN idx' = ix /\ other' = other
         ELSE idx' = idx /\ other' = ix
    /\ dec' = dec

BuildVoxelBlock ==
    \E c \in Coords :
        Store(Built(KeyVoxelBlock, NewVoxelBlockIndex(c), c, Nil, U64(0), U64(0)))

BuildForwardMap ==
    \E l \in Labels, m \in U64Vals :
        Store(Built(KeyForwardMap, NewForwardMapIndex(l, m), Nil, l, m, U64(0)))

BuildInverseMap ==
    \E l \in Labels, m \in U64Vals :
        Store(Built(KeyInverseMap, NewInverseMapIndex(l, m), Nil, l, m, U64(0)))

BuildSpatialMap ==
    \E c \in Coords, l \in Labels \cup {Nil}, m \in U64Vals :
        Store(Built(KeySpatialMap, NewSpatialMapIndex(c, l, m), c, l, m, U64(0)))

\* The uint64 label is recorded in the mapping field.
BuildLabelSpatialMap ==
    \E b \in U64Vals, c \in Coords :
        Store(Built(KeyLabelSpatialMap, NewLabelSpatialMapIndex(b, c), c, Nil, b, U64(0)))

BuildLabelSizes ==
    \E v \in U64Vals, b \in U64Vals :
        Store(Built(KeyLabelSizes, NewLabelSizesIndex(v, b), Nil, Nil, b, v))

BuildLabelSurface ==
    \E b \in U64Vals :
        Store(Built(KeyLabelSurface, NewLabelSurfaceIndex(b), Nil, Nil, b, U64(0)))

\* idx.UpdateSpatialMapIndex(label, mappedLabel) on an index NewSpatialMapIndex returned
Update ==
    /\ idx.kind = KeySpatialMap
    /\ ~idx.updated
    /\ other = NoIndex
    /\ dec = NoResult
    /\ \E l \in Labels \cup {Nil}, m \in U64Vals :
         idx' = [idx EXCEPT !.bytes = UpdateSpatialMapIndex(idx.bytes, l, m),
                            !.label = l, !.mapping = m, !.updated = TRUE,
                            !.old = idx.bytes, !.oldLabel = idx.label]
    /\ UNCHANGED <<other, dec>>

Decode(result) ==
    /\ idx # NoIndex
    /\ other = NoIndex
    /\ dec = NoResult
    /\ dec' = result
    /\ UNCHANGED <<idx, other>>

DecodeVoxelBlock == Decode(DecodeVoxelBlockKey(KeyOf(idx.bytes)))

DecodeSpatialMap == Decode(DecodeSpatialMapKey(KeyOf(idx.bytes)))

DecodeLabelSpatialMap == Decode(DecodeLabelSpatialMapKey(KeyOf(idx.bytes)))

DecodeLabelSizes == Decode(LabelFromLabelSizesKey(KeyOf(idx.bytes)))

NextKeys ==
    \/ BuildForwardMap /\ UNCHANGED <<poolVars, cgoVars, shutVars,
                    loadVars, engineVars, idVars>>
    \/ BuildVoxelBlock /\ UNCHANGED <<poolVars, cgoVars, shutVars,
                    loadVars, engineVars, idVars>>
    \/ BuildInverseMap /\ UNCHANGED <<poolVars, cgoVars, shutVars,
                    loadVars, engineVars, idVars>>
    \/ BuildSpatialMap /\ UNCHANGED <<poolVars, cgoVars, shutVars,
                    loadVars, engineVars, idVars>>
    \/ BuildLabelSpatialMap /\ UNCHANGED <<poolVars, cgoVars, shutVars,
                    loadVars, engineVars, idVars>>
    \/ BuildLabelSizes /\ UNCHANGED <<poolVars, cgoVars, shutVars,
                    loadVars, engineVars, idVars>>
    \/ BuildLabelSurface /\ UNCHANGED <<poolVars, cgoVars, shutVars,
                    loadVars, engineVars, idVars>>
    \/ Update /\ UNCHANGED <<poolVars, cgoVars, shutVars, loadVars, engineVars, idVars>>
    \/ DecodeVoxelBlock /\ UNCHANGED <<poolVars, cgoVars, shutVars,
                    loadVars, engineVars, idVars>>
    \/ DecodeSpatialMap /\ UNCHANGED <<poolVars, cgoVars, shutVars,
                    loadVars, engineVars, idVars>>
    \/ DecodeLabelSpatialMap /\ UNCHANGED <<poolVars, cgoVars, shutVars,
                    loadVars, engineVars, idVars>>
    \/ DecodeLabelSizes /\ UNCHANGED <<poolVars, cgoVars, shutVars,
                    loadVars, engineVars, idVars>>

SpecKeys == Init /\ [][NextKeys]_vars

(***************************************************************************)
(* Properties of the keyspace encoder.                                     *)
(***************************************************************************)

\* C6: every decoder, given a key whose index starts with another KeyType than the
\* one it is for, returns a KeyType-mismatch error and no decoded field.
C6_DecodersRejectOtherKinds ==
    (dec.decoder # "none" /\ idx.bytes[1] # ExpectedKeyType(dec.decoder)) =>
        /\ dec.err = "KeyTypeMismatch"
        /\ dec.label = Nil /\ dec.num = U64(0) /\ dec.block = Nil

\* bytes 0 .. len-17 of a SpatialMapIndex: the KeyType byte and the block coordinate
SpatialPrefix(b) == SubSeq(b, 1, Len(b) - 16)

\* C7 as stated: NewSpatialMapIndex(coord, labelA, mapA) updated with (labelB, mapB) is
\* byte-identical to NewSpatialMapIndex(coord, labelB, mapB), for labels that are
\* 8-byte values or nil, and the update leaves the prefix unchanged.
C7_UpdateEqualsFreshBuild ==
    idx.updated =>
        /\ idx.bytes = NewSpatialMapIndex(idx.coord, idx.label, idx.mapping)
        /\ SpatialPrefix(idx.bytes) = SpatialPrefix(idx.old)

\* C7 amended: the updated index is byte-identical to the fresh build exactly when
\* labelB is an 8-byte value or labelA was nil or all zero; with labelB nil the update
\* rewrites the mapping only and keeps labelA, giving NewSpatialMapIndex(coord, labelA,
\* mapB).  In every case the length, the KeyType byte and the prefix are unchanged.
C7_UpdateEqualsFreshBuildUnlessNilLabel ==
    idx.updated =>
        /\ (idx.bytes = NewSpatialMapIndex(idx.coord, idx.label, idx.mapping))
             <=> (idx.label # Nil \/ idx.oldLabel \in {Nil, Byte8(0, 0)})
        /\ idx.label = Nil =>
             idx.bytes = NewSpatialMapIndex(idx.coord, idx.oldLabel, idx.mapping)
        /\ Len(idx.bytes) = Len(idx.old)
        /\ idx.bytes[1] = KeySpatialMap
        /\ SpatialPrefix(idx.bytes) = SpatialPrefix(idx.old)

\* An index built with one 8-byte label and mapping has been updated with another
\* label and another mapping.
C7_Witness ==
    /\ idx.updated
    /\ idx.label # Nil /\ idx.oldLabel # Nil /\ idx.label # idx.oldLabel
    /\ idx.bytes # idx.old
    /\ Len(idx.coord) = IndexZYXSize

KeyTypes ==
    {KeyVoxelBlock, KeyForwardMap, KeyInverseMap, KeySpatialMap, KeyLabelSpatialMap,
     KeyLabelSizes, KeyLabelSurface}

\* C8: the first byte of every built index is the KeyType of its kind, one of seven
\* distinct values none of which is KeyUnknown; so of two indices of different kinds
\* the one of the smaller KeyType sorts strictly first, whatever their inputs (and
\* hence no index lies between two indices of another kind).
C8_KeyspacePartition ==
    /\ Cardinality(KeyTypes) = 7 /\ KeyTypes = 1 .. 7 /\ KeyUnknown = 0
    /\ \A ix \in {idx, other} :
         ix # NoIndex => ix.kind \in KeyTypes /\ ix.bytes[1] = ix.kind
    /\ (idx # NoIndex /\ other # NoIndex) =>
         /\ idx.kind < other.kind => LexLess(idx.bytes, other.bytes)
         /\ other.kind < idx.kind => LexLess(other.bytes, idx.bytes)

\* Two indices of different kinds whose payload bytes are ordered against their kinds.
C8_Witness ==
    /\ idx # NoIndex /\ other # NoIndex
    /\ idx.kind < other.kind
    /\ Len(idx.bytes) > 1 /\ Len(other.bytes) > 1
    /\ idx.bytes[2] > other.bytes[2]

\* C9: NewForwardMapIndex(a, m) is the 17 bytes [0x02][a][m big-endian] and
\* NewInverseMapIndex(a, m) is [0x03][m big-endian][a]; reading the fields back gives
\* (a, m) and (m, a); label 00..01 with mapping 2 gives 02 | 00..01 | 00..02.
C9_ForwardInverseLayout ==
    /\ idx.kind = KeyForwardMap =>
         /\ idx.bytes = <<2>> \o idx.label \o BigEndianBytes(idx.mapping)
         /\ Len(idx.bytes) = 17
         /\ Slice(idx.bytes, 1, 9) = idx.label
         /\ Uint64(Slice(idx.bytes, 9, 17)) = idx.mapping
    /\ idx.kind = KeyInverseMap =>
         /\ idx.bytes = <<3>> \o BigEndianBytes(idx.mapping) \o idx.label
         /\ Len(idx.bytes) = 17
         /\ Uint64(Slice(idx.bytes, 1, 9)) = idx.mapping
         /\ Slice(idx.bytes, 9, 17) = idx.label
    /\ (idx.kind = KeyForwardMap /\ idx.label = Byte8(0, 1) /\ idx.mapping = U64(2)) =>
         idx.bytes = <<2, 0, 0, 0, 0, 0, 0, 0, 1, 0, 0, 0, 0, 0, 0, 0, 2>>
    /\ (idx.kind = KeyInverseMap /\ idx.label = Byte8(1, 0) /\ idx.mapping = U64(256)) =>
         idx.bytes = <<3, 0, 0, 0, 0, 0, 0, 1, 0, 1, 0, 0, 0, 0, 0, 0, 0>>

\* The inverse index of a label and a mapping whose bytes differ has been built.
C9_Witness ==
    /\ idx.kind = KeyInverseMap
    /\ idx.label = Byte8(1, 0)
    /\ idx.mapping = U64(256)

\* C10: two LabelSurface indices are ordered as their labels, and two LabelSizes
\* indices as their (size, label) pairs: the smaller size first, for the same label
\* and for different labels.
C10_OrderPreserved ==
    /\ (idx.kind = KeyLabelSurface /\ other.kind = KeyLabelSurface) =>
         (U64Less(idx.mapping, other.mapping) <=> LexLess(idx.bytes, other.bytes))
    /\ (idx.kind = KeyLabelSizes /\ other.kind = KeyLabelSizes) =>
         /\ U64Less(idx.size, other.size) => LexLess(idx.bytes, other.bytes)
         /\ LexLess(idx.bytes, other.bytes) <=>
              \/ U64Less(idx.size, other.size)
              \/ idx.size = other.size /\ U64Less(idx.mapping, other.mapping)

\* Two LabelSizes indices: the smaller size, in its low byte, with the larger label.
C10_Witness ==
    /\ idx.kind = KeyLabelSizes /\ other.kind = KeyLabelSizes
    /\ idx.size = U64(2) /\ other.size = U64(256)
    /\ U64Less(other.mapping, idx.mapping)

(***************************************************************************)
(* server.init: the load monitor goroutine.  Every tick of loadCheckTimer  *)
(* it runs the body of its loop once.                                      *)
(***************************************************************************)

\* ticks = (ticks + 1) % 100
TicksPerWindow == 100

SetMax(S) == CHOOSE x \in S : \A y \in S : y <= x

TickSampleBeforeReset ==
    LET t == (ticks + 1) % TicksPerWindow
        numHandlers == MaxChunkHandlers - HandlerToken
        cur == IF numHandlers > curActiveHandlers THEN numHandlers ELSE curActiveHandlers
    IN /\ ticks' = t
       /\ ActiveHandlers' = IF t = 0 THEN cur ELSE ActiveHandlers
       /\ curActiveHandlers' = IF t = 0 THEN 0 ELSE cur
       /\ samples' = (IF t = 0 THEN {} ELSE samples) \cup {numHandlers}
       /\ winTicks' = (IF t = 0 THEN 0 ELSE winTicks) + 1
       /\ ended' = IF t = 0 /\ ended < 2 THEN ended + 1 ELSE ended

\* <-loadCheckTimer and one pass through the loop body
Tick ==
    LET t == (ticks + 1) % TicksPerWindow
        cur == IF t = 0 THEN 0 ELSE curActiveHandlers
        numHandlers == MaxChunkHandlers - HandlerToken
    IN /\ ticks' = t
       /\ ActiveHandlers' = IF t = 0 THEN curActiveHandlers ELSE ActiveHandlers
       /\ curActiveHandlers' = IF numHandlers > cur THEN numHandlers ELSE cur
       /\ samples' = (IF t = 0 THEN {} ELSE samples) \cup {numHandlers}
       /\ winTicks' = (IF t = 0 THEN 0 ELSE winTicks) + 1
       /\ ended' = IF t = 0 /\ ended < 2 THEN ended + 1 ELSE ended

NextLoad ==
    \/ HandlerStep /\ UNCHANGED <<cgoVars, shutVars, keyVars, loadVars, engineVars, idVars>>
    \/ Tick /\ UNCHANGED <<poolVars, cgoVars, shutVars, keyVars, engineVars, idVars>>

SpecLoad == Init /\ [][NextLoad]_vars

TallyInRange ==
    /\ curActiveHandlers \in 0 .. MaxChunkHandlers
    /\ ActiveHandlers \in 0 .. MaxChunkHandlers

\* C15 as stated: every tick takes one sample numHandlers; at every 100th tick
\* ActiveHandlers becomes the maximum of the samples of the window just ended, which
\* holds 100 ticks, and the tally restarts from 0 and takes the sample of the
\* resetting tick; both tallies stay within 0 .. MaxChunkHandlers.
C15_WindowOf100Ticks ==
    /\ [][ticks' # ticks =>
            LET numHandlers == MaxChunkHandlers - HandlerToken
            IN IF ticks' = 0
                 THEN /\ winTicks = TicksPerWindow
                      /\ ActiveHandlers' = SetMax(samples)
                      /\ curActiveHandlers' = numHandlers
                 ELSE /\ ActiveHandlers' = ActiveHandlers
                      /\ curActiveHandlers' = SetMax({curActiveHandlers, numHandlers})
        ]_vars
    /\ []TallyInRange

\* C15 amended: as stated, except that the first window after the start holds 99
\* ticks (ticks starts at 0 and the first pass of the loop makes it 1); every later
\* window holds 100, the resetting tick first.
C15_LoadSampler ==
    /\ [][ticks' # ticks =>
            LET numHandlers == MaxChunkHandlers - HandlerToken
            IN IF ticks' = 0
                 THEN /\ winTicks = (IF ended = 0 THEN TicksPerWindow - 1 ELSE TicksPerWindow)
                      /\ ActiveHandlers' = SetMax(samples)
                      /\ curActiveHandlers' = numHandlers
                 ELSE /\ ActiveHandlers' = ActiveHandlers
                      /\ curActiveHandlers' = SetMax({curActiveHandlers, numHandlers})
        ]_vars
    /\ []TallyInRange

\* A second window has just ended: every handler token was out at some tick of it,
\* so ActiveHandlers is MaxChunkHandlers, and none is out at the resetting tick, so
\* the tally restarts at 0.
C15_Witness ==
    /\ ended = 2
    /\ ticks = 0
    /\ winTicks = 1
    /\ ActiveHandlers = MaxChunkHandlers
    /\ curActiveHandlers = 0

(***************************************************************************)
(* server.SetupEngines.  What local.NewKeyValueStore and NewGraphStore     *)
(* return is an input: an error, or an engine whose type implements some   *)
(* of the interfaces that SetupEngines asserts.                            *)
(***************************************************************************)

KvCaps == <<"OrderedKeyValueDB", "OrderedKeyValueSetter", "OrderedKeyValueGetter">>

GraphCaps == <<"GraphDB", "GraphSetter", "GraphGetter">>

Range(q) == {q[i] : i \in 1 .. Len(q)}

Engine(caps) == [open |-> TRUE, caps |-> caps]

\* (engine, err) as returned by a constructor
Returns(caps) ==
    {[engine |-> NoEngine, err |-> "open failed"]}
        \cup {[engine |-> Engine(c), err |-> ""] : c \in SUBSET Range(caps)}

\* v, ok = e.(I): ok tells whether the dynamic type of e implements I, and v is nil if not
Implements(e, I) == e.open /\ I \in e.caps

TypeAssert(e, I) == IF Implements(e, I) THEN e ELSE NoEngine

\* the text of the fmt.Errorf for a failed assertion, without the path
ErrorFor(I) ==
    CASE I = "OrderedKeyValueDB" -> "is not a valid ordered key-value database"
      [] I = "OrderedKeyValueSetter" -> "is not a valid ordered key-value setter"
      [] I = "OrderedKeyValueGetter" -> "is not a valid ordered key-value getter"
      [] I = "GraphDB" -> "cannot support a graph database"
      [] I = "GraphSetter" -> "cannot support a graph setter"
      [] I = "GraphGetter" -> "cannot support a graph getter"

Outcome(E, e, p) == [Engines |-> E, err |-> e, probed |-> p]

SetupEnginesMarkingEarly(E, kv, graph) ==
    LET E1 == [E EXCEPT !.kvEngine = kv.engine]
        E2 == [E1 EXCEPT !.kvDB = TypeAssert(kv.engine, KvCaps[1])]
        E3 == [E2 EXCEPT !.kvSetter = TypeAssert(kv.engine, KvCaps[2])]
        E4 == [E3 EXCEPT !.kvGetter = TypeAssert(kv.engine, KvCaps[3]), !.setup = TRUE]
        E5 == [E4 EXCEPT !.graphEngine = graph.engine]
        E6 == [E5 EXCEPT !.graphDB = TypeAssert(graph.engine, GraphCaps[1])]
        E7 == [E6 EXCEPT !.graphSetter = TypeAssert(graph.engine, GraphCaps[2])]
        E8 == [E7 EXCEPT !.graphGetter = TypeAssert(graph.engine, GraphCaps[3])]
        p1 == <<"NewKeyValueStore">>
        p2 == Append(p1, KvCaps[1])
        p3 == Append(p2, KvCaps[2])
        p4 == Append(p3, KvCaps[3])
        p5 == Append(p4, "NewGraphStore")
        p6 == Append(p5, GraphCaps[1])
        p7 == Append(p6, GraphCaps[2])
        p8 == Append(p7, GraphCaps[3])
    IN IF kv.err # "" THEN Outcome(E1, kv.err, p1)
       ELSE IF ~Implements(kv.engine, KvCaps[1]) THEN Outcome(E2, ErrorFor(KvCaps[1]), p2)
       ELSE IF ~Implements(kv.engine, KvCaps[2]) THEN Outcome(E3, ErrorFor(KvCaps[2]), p3)
       ELSE IF ~Implements(kv.engine, KvCaps[3])
         THEN Outcome([E4 EXCEPT !.setup = E.setup], ErrorFor(KvCaps[3]), p4)
       ELSE IF graph.err # "" THEN Outcome(E5, graph.err, p5)
       ELSE IF ~Implements(graph.engine, GraphCaps[1]) THEN Outcome(E6, ErrorFor(GraphCaps[1]), p6)
       ELSE IF ~Implements(graph.engine, GraphCaps[2]) THEN Outcome(E7, ErrorFor(GraphCaps[2]), p7)
       ELSE IF ~Implements(graph.engine, GraphCaps[3]) THEN Outcome(E8, ErrorFor(GraphCaps[3]), p8)
       ELSE Outcome(E8, "", p8)

\* SetupEngines, given what the two constructors return: the Engines it leaves, the
\* error it returns and the constructors and assertions it ran.
SetupEngines(E, kv, graph) ==
    LET E1 == [E EXCEPT !.kvEngine = kv.engine]
        E2 == [E1 EXCEPT !.kvDB = TypeAssert(kv.engine, KvCaps[1])]
        E3 == [E2 EXCEPT !.kvSetter = TypeAssert(kv.engine, KvCaps[2])]
        E4 == [E3 EXCEPT !.kvGetter = TypeAssert(kv.engine, KvCaps[3])]
        E5 == [E4 EXCEPT !.graphEngine = graph.engine]
        E6 == [E5 EXCEPT !.graphDB = TypeAssert(graph.engine, GraphCaps[1])]
        E7 == [E6 EXCEPT !.graphSetter = TypeAssert(graph.engine, GraphCaps[2])]
        E8 == [E7 EXCEPT !.graphGetter = TypeAssert(graph.engine, GraphCaps[3])]
        p1 == <<"NewKeyValueStore">>
        p2 == Append(p1, KvCaps[1])
        p3 == Append(p2, KvCaps[2])
        p4 == Append(p3, KvCaps[3])
        p5 == Append(p4, "NewGraphStore")
        p6 == Append(p5, GraphCaps[1])
        p7 == Append(p6, GraphCaps[2])
        p8 == Append(p7, GraphCaps[3])
    IN IF kv.err # "" THEN Outcome(E1, kv.err, p1)
       ELSE IF ~Implements(kv.engine, KvCaps[1]) THEN Outcome(E2, ErrorFor(KvCaps[1]), p2)
       ELSE IF ~Implements(kv.engine, KvCaps[2]) THEN Outcome(E3, ErrorFor(KvCaps[2]), p3)
       ELSE IF ~Implements(kv.engine, KvCaps[3]) THEN Outcome(E4, ErrorFor(KvCaps[3]), p4)
       ELSE IF graph.err # "" THEN Outcome(E5, graph.err, p5)
       ELSE IF ~Implements(graph.engine, GraphCaps[1]) THEN Outcome(E6, ErrorFor(GraphCaps[1]), p6)
       ELSE IF ~Implements(graph.engine, GraphCaps[2]) THEN Outcome(E7, ErrorFor(GraphCaps[2]), p7)
       ELSE IF ~Implements(graph.engine, GraphCaps[3]) THEN Outcome(E8, ErrorFor(GraphCaps[3]), p8)
       ELSE Outcome([E8 EXCEPT !.setup = TRUE], "", p8)

\* One call of SetupEngines(path, config)
CallSetupEngines ==
    \E kv \in Returns(KvCaps), graph \in Returns(GraphCaps) :
        LET r == SetupEngines(Engines, kv, graph)
        IN /\ Engines' = r.Engines
           /\ setupErr' = r.err
           /\ probed' = r.probed

NextSetup ==
    CallSetupEngines /\ UNCHANGED <<poolVars, cgoVars, shutVars, keyVars, loadVars, idVars>>

SpecSetup == Init /\ [][NextSetup]_vars

\* The constructors and assertions of SetupEngines in the order of the code.
ProbingOrder == <<"NewKeyValueStore">> \o KvCaps \o <<"NewGraphStore">> \o GraphCaps

\* The first interface of the list that the engine does not implement ("" if none).
FirstMissing(e, caps) ==
    IF \A i \in 1 .. Len(caps) : Implements(e, caps[i]) THEN ""
    ELSE caps[CHOOSE i \in 1 .. Len(caps) :
                  /\ ~Implements(e, caps[i])
                  /\ \A j \in 1 .. i - 1 : Implements(e, caps[j])]

\* The last call created the key-value engine / the graph engine.
KvCreated == probed # <<>> /\ Engines.kvEngine.open

GraphCreated == "NewGraphStore" \in Range(probed) /\ Engines.graphEngine.open

AllSixPresent ==
    /\ KvCreated /\ FirstMissing(Engines.kvEngine, KvCaps) = ""
    /\ GraphCreated /\ FirstMissing(Engines.graphEngine, GraphCaps) = ""

\* C11: SetupEngines returns nil and sets Engines.setup = true iff both engines are
\* created and all six capabilities are present; if a capability is absent it
\* returns the error naming the first missing one in the probing order (key-value
\* DB, setter, getter; graph DB, setter, getter) and does not set Engines.setup; it
\* neither creates nor probes the graph engine when a key-value capability is missing.
C11_CapabilityProbing ==
    /\ [](probed # <<>> =>
            /\ IsPrefix(probed, ProbingOrder)
            /\ (setupErr = "" <=> AllSixPresent)
            /\ setupErr = "" => Engines.setup
            /\ (KvCreated /\ FirstMissing(Engines.kvEngine, KvCaps) # "") =>
                   /\ setupErr = ErrorFor(FirstMissing(Engines.kvEngine, KvCaps))
                   /\ Range(probed) \cap ({"NewGraphStore"} \cup Range(GraphCaps)) = {}
            /\ (GraphCreated /\ FirstMissing(Engines.graphEngine, GraphCaps) # "") =>
                   setupErr = ErrorFor(FirstMissing(Engines.graphEngine, GraphCaps)))
    /\ [][setupErr' # "" => Engines'.setup = Engines.setup]_vars

\* The first call found both engines, and the graph engine is a graph database only:
\* the call returned the graph setter error, the first missing capability, and left
\* Engines.setup false.
C11_Witness ==
    /\ setupErr = ErrorFor("GraphSetter")
    /\ Engines.graphEngine = Engine({"GraphDB"})
    /\ Engines.kvGetter.open
    /\ ~Engines.setup

(***************************************************************************)
(* package dvid: local identifiers and their byte encodings.  A value is   *)
(* written as its 16-bit limbs, most significant first: one limb for the   *)
(* uint16 LocalID, two for the uint32 types.                               *)
(***************************************************************************)

LocalIDSize == 2

LocalID32Size == 4

\* binary.BigEndian.PutUint16 into a fresh buffer
PutUint16(v) == <<v \div 256, v % 256>>

\* binary.BigEndian.PutUint32 into a fresh buffer
PutUint32(v) == PutUint16(v[1]) \o PutUint16(v[2])

\* binary.BigEndian.Uint16(b): the first two bytes of b
Uint16(b) == b[1] * 256 + b[2]

\* binary.BigEndian.Uint32(b): the first four bytes of b
Uint32(b) == <<b[1] * 256 + b[2], b[3] * 256 + b[4]>>

LocalIDBytes(v) == PutUint16(v[1])

LocalIDFromBytes(b) == <<<<Uint16(b)>>, LocalIDSize>>

LocalID32Bytes(v) == PutUint32(v)

LocalID32FromBytes(b) == <<Uint32(b), LocalID32Size>>

InstanceIDBytes(v) == PutUint32(v)

InstanceIDFromBytes(b) == <<Uint32(b)>>

RepoIDBytes(v) == PutUint32(v)

RepoIDFromBytes(b) == <<Uint32(b)>>

VersionIDBytes(v) == PutUint32(v)

VersionIDFromBytes(b) == <<Uint32(b)>>

\* Values of a LocalID and of the 32-bit types, MaxLocalID and MaxLocalID32 included.
LocalIDs == {<<0>>, <<1>>, <<255>>, <<256>>, <<258>>, <<4660>>, <<65280>>, <<65535>>}

LocalID32s ==
    {<<0, 0>>, <<0, 1>>, <<0, 256>>, <<1, 0>>, <<258, 772>>, <<65280, 255>>, <<32768, 0>>,
     <<65535, 65535>>}

\* Bytes that follow the identifier in the slice handed to the decoder.
Trailing == {<<>>, <<0>>, <<255, 1>>}

NoDecode == [input |-> <<>>, ret |-> <<>>]

Encoded(type, v, b) ==
    /\ id' = [type |-> type, value |-> v]
    /\ enc' = b
    /\ decoded' = NoDecode

EncodeLocalID == \E v \in LocalIDs : Encoded("LocalID", v, LocalIDBytes(v))

EncodeLocalID32 == \E v \in LocalID32s : Encoded("LocalID32", v, LocalID32Bytes(v))

EncodeInstanceID == \E v \in LocalID32s : Encoded("InstanceID", v, InstanceIDBytes(v))

EncodeRepoID == \E v \in LocalID32s : Encoded("RepoID", v, RepoIDBytes(v))

EncodeVersionID == \E v \in LocalID32s : Encoded("VersionID", v, VersionIDBytes(v))

DecodeLocalID ==
    /\ id.type = "LocalID"
    /\ \E t \in Trailing :
         decoded' = [input |-> enc \o t, ret |-> LocalIDFromBytes(enc \o t)]
    /\ UNCHANGED <<id, enc>>

DecodeLocalID32 ==
    /\ id.type = "LocalID32"
    /\ \E t \in Trailing :
         decoded' = [input |-> enc \o t, ret |-> LocalID32FromBytes(enc \o t)]
    /\ UNCHANGED <<id, enc>>

DecodeInstanceID ==
    /\ id.type = "InstanceID"
    /\ \E t \in Trailing :
         decoded' = [input |-> enc \o t, ret |-> InstanceIDFromBytes(enc \o t)]
    /\ UNCHANGED <<id, enc>>

DecodeRepoID ==
    /\ id.type = "RepoID"
    /\ \E t \in Trailing :
         decoded' = [input |-> enc \o t, ret |-> RepoIDFromBytes(enc \o t)]
    /\ UNCHANGED <<id, enc>>

DecodeVersionID ==
    /\ id.type = "VersionID"
    /\ \E t \in Trailing :
         decoded' = [input |-> enc \o t, ret |-> VersionIDFromBytes(enc \o t)]
    /\ UNCHANGED <<id, enc>>

NextIds ==
    \/ EncodeInstanceID /\ UNCHANGED <<poolVars, cgoVars, shutVars, keyVars, loadVars, engineVars>>
    \/ EncodeLocalID /\ UNCHANGED <<poolVars, cgoVars, shutVars, keyVars, loadVars, engineVars>>
    \/ EncodeLocalID32 /\ UNCHANGED <<poolVars, cgoVars, shutVars, keyVars, loadVars, engineVars>>
    \/ EncodeRepoID /\ UNCHANGED <<poolVars, cgoVars, shutVars, keyVars, loadVars, engineVars>>
    \/ EncodeVersionID /\ UNCHANGED <<poolVars, cgoVars, shutVars, keyVars, loadVars, engineVars>>
    \/ DecodeInstanceID /\ UNCHANGED <<poolVars, cgoVars, shutVars, keyVars, loadVars, engineVars>>
    \/ DecodeLocalID /\ UNCHANGED <<poolVars, cgoVars, shutVars, keyVars, loadVars, engineVars>>
    \/ DecodeLocalID32 /\ UNCHANGED <<poolVars, cgoVars, shutVars, keyVars, loadVars, engineVars>>
    \/ DecodeRepoID /\ UNCHANGED <<poolVars, cgoVars, shutVars, keyVars, loadVars, engineVars>>
    \/ DecodeVersionID /\ UNCHANGED <<poolVars, cgoVars, shutVars, keyVars, loadVars, engineVars>>

SpecIds == Init /\ [][NextIds]_vars

\* The fixed width of a type's encoding: 2 bytes per 16-bit limb of its values.
Width(type) == IF type = "LocalID" THEN 2 ELSE 4

\* Byte k (from 1) of the big-endian form of a value given by its limbs.
BigEndianByte(v, k) ==
    IF k % 2 = 1 THEN v[(k + 1) \div 2] \div 256 ELSE v[k \div 2] % 256

\* C12: for each of LocalID, LocalID32, InstanceID, RepoID and VersionID, Bytes(id)
\* has the type's fixed width (2 bytes for LocalID, 4 for the others) in big-endian
\* order, and decoding from the head of Bytes(id) followed by any trailing bytes
\* returns the value id together with the number of bytes consumed, that width.
C12_IdRoundTrip ==
    id # NoID =>
        /\ Len(enc) = Width(id.type)
        /\ \A k \in 1 .. Len(enc) : enc[k] = BigEndianByte(id.value, k)
        /\ decoded # NoDecode => decoded.ret = <<id.value, Width(id.type)>>

====
